---- MODULE Spec2Model ----
(***************************************************************************)
(* cereal/types/memory.hpp: save and load of std::shared_ptr,              *)
(* std::weak_ptr and std::unique_ptr.                                      *)
(*                                                                         *)
(* One run of the model is: an object graph G is given, one save traversal *)
(* writes it to a stream, one load traversal reads the stream back into a  *)
(* fresh heap, then the load archive (and with it the pointer registry)    *)
(* is destroyed and finally the loaded top-level pointers are dropped.     *)
(***************************************************************************)
EXTENDS Integers, Sequences, FiniteSets, TLC

\* Number of pointees of the saved graph.
NObj == 2

\* Largest value of the low 31 bits of an identifier.
LowMax == 2147483647

Obj == 1..NObj
Kinds == {"shared", "weak", "unique"}
\* has_load_and_construct<T> / has_shared_from_this<T> of the pointee type.
Variants == {"default", "hook", "hookSFT"}

\* A pointer slot of the saved graph: its static kind and its pointee (0: none).
Ptr == [kind : Kinds, tgt : 0..NObj]

\* Pointer values of the loaded heap: an instance, 0 (null), or Prev (what the
\* destination held before load was called).
Prev == 0 - 1

VARIABLES
  roots,      \* the top-level pointers of G, in the order they are archived
  gfld,       \* gfld[o]: the pointer member of pointee o
  variant,    \* traits of the pointee type
  phase,      \* "save", "load", "failed", "loaded", "closed", "done"
  agenda,     \* save: pointers whose save call is pending, depth first
  stream,     \* the archive contents: sequence of named fields
  saveMap,    \* save-side registry: pointee -> identifier (0: not seen)
  nextId,     \* save-side registry: itsCurrentPointerId
  saveLog,    \* save: one entry per pointer wrapper saved
  pos,        \* load: number of stream fields consumed
  rootIdx,    \* load: index of the top-level pointer being loaded
  stack,      \* load: call stack of the traversal
  loadMap,    \* load-side registry: identifier -> owner (0: not registered)
  rootDst,    \* load: the top-level destination pointers
  heap,       \* load: the instances allocated by the traversal
  consumed,   \* load: names of the fields requested from the archive
  err         \* "none", or the failure that left load

vars == <<roots, gfld, variant, phase, agenda, stream, saveMap, nextId, saveLog,
          pos, rootIdx, stack, loadMap, rootDst, heap, consumed, err>>

graphVars == <<roots, gfld, variant>>
saveVars == <<agenda, stream, saveMap, nextId, saveLog>>
loadVars == <<pos, rootIdx, stack, loadMap, rootDst, heap, consumed, err>>

----------------------------------------------------------------------------
(* The saved graph *)

Slots(rs, gf) ==
  {[at |-> "root", i |-> r, p |-> rs[r]] : r \in 1..Len(rs)}
    \cup {[at |-> "field", i |-> o, p |-> gf[o]] : o \in Obj}

OwnersOf(rs, gf, o, k) ==
  {s \in Slots(rs, gf) : s.p.tgt = o /\ s.p.kind = k}

RECURSIVE Chain(_, _, _)
\* The pointees met for the first time when the pointer to o is followed
\* through the pointer members, in order; seen: the pointees met before.
Chain(gf, o, seen) ==
  IF o = 0 \/ o \in seen THEN <<>>
  ELSE <<o>> \o Chain(gf, gf[o].tgt, seen \cup {o})

\* The pointees in the order a depth-first traversal from the top-level
\* pointers meets them.
Discovery(rs, gf) ==
  LET first == Chain(gf, rs[1].tgt, {})
  IN first \o Chain(gf, rs[2].tgt, {first[k] : k \in DOMAIN first})

\* Exclusive ownership: a pointee held by a unique_ptr has that one owner.
\* Every pointee is reachable, and pointees are numbered in the order of
\* their discovery (which pointee has which address makes no difference).
WellFormed(rs, gf) ==
  /\ \A o \in Obj :
       /\ Cardinality(OwnersOf(rs, gf, o, "unique")) <= 1
       /\ OwnersOf(rs, gf, o, "unique") # {}
            => OwnersOf(rs, gf, o, "shared") \cup OwnersOf(rs, gf, o, "weak") = {}
  /\ Discovery(rs, gf) = [o \in Obj |-> o]

\* The archived client object has two pointer members, first and second.
RootSeqs == {<<a, b>> : a \in Ptr, b \in Ptr}

----------------------------------------------------------------------------
(* Identifiers *)

\* A std::uint32_t identifier, written as its top bit (detail::msb_32bit, the
\* first-occurrence flag) and its low 31 bits.
Id(m, n) == [msb |-> m, low |-> n]

\* id & detail::msb_32bit
HasMsb(id) == id.msb

\* id | detail::msb_32bit
WithMsb(id) == Id(TRUE, id.low)

\* id & ~detail::msb_32bit
StripMsb(id) == Id(FALSE, id.low)

\* One named field of the archive. v is the scalar written; for a field that
\* is itself an object ("ptr_wrapper", "data") v is 0, or for "data" the pointee
\* whose members follow (its static type tells load the kind of its member).
Field(name, v) == [name |-> name, v |-> v]

----------------------------------------------------------------------------
(* Save-side registry of the archive (cereal.hpp, OutputArchive) *)

\* registerSharedPointer(addr): 0 for a null address, the identifier already
\* given to addr, or a new identifier with the first-occurrence flag set.
registerSharedPointer(map, next, addr) ==
  IF addr = 0 THEN [id |-> Id(FALSE, 0), map |-> map, next |-> next]
  ELSE IF map[addr] # 0
  THEN [id |-> Id(FALSE, map[addr]), map |-> map, next |-> next]
  ELSE [id |-> WithMsb(Id(FALSE, next)),
        map |-> [map EXCEPT ![addr] = next],
        next |-> IF next = LowMax THEN 0 ELSE next + 1]

----------------------------------------------------------------------------
(* Save *)

\* *ptr as serialized: the pointer member of the pointee. Dereferencing a null
\* pointer has no defined result; nothing is serialized for it.
Members(addr) == IF addr = 0 THEN <<>> ELSE <<gfld[addr]>>

\* Variant of SaveEmitsData: no test of the identifier.
SaveEmitsDataAlways(id) == TRUE

\* Variant of SaveEmitsData: data for every non-null identifier.
SaveEmitsDataForAnyId(id) == id.low # 0

\* if( id & detail::msb_32bit ): the pointee's data follows the identifier.
SaveEmitsData(id) == HasMsb(id)

\* What one wrapper save wrote: the wrapper kind, ptr.get(), the identifier or
\* the validity byte, whether data followed, and the stream length before it.
LogEntry(via, addr, id, valid, d) ==
  [via |-> via, tgt |-> addr, id |-> id, valid |-> valid, data |-> d,
   at |-> Len(stream)]

\* save( ar, PtrWrapper<std::shared_ptr<T> const &> ), ptr.get() = addr.
SaveSharedWrapper(addr) ==
  LET r == registerSharedPointer(saveMap, nextId, addr)
      d == SaveEmitsData(r.id)
  IN /\ saveMap' = r.map
     /\ nextId' = r.next
     /\ stream' = stream \o <<Field("ptr_wrapper", 0), Field("id", r.id)>>
                     \o (IF d THEN <<Field("data", addr)>> ELSE <<>>)
     /\ saveLog' = Append(saveLog, LogEntry("shared", addr, r.id, 0, d))
     \* ar( "data", *ptr ): the pointee's member is saved next
     /\ agenda' = (IF d THEN Members(addr) ELSE <<>>) \o Tail(agenda)

\* save( ar, std::shared_ptr<T> const & )
SaveShared ==
  /\ phase = "save" /\ agenda # <<>> /\ Head(agenda).kind = "shared"
  /\ SaveSharedWrapper(Head(agenda).tgt)
  /\ UNCHANGED <<graphVars, phase, loadVars>>

\* Variant of Lock: the temporary is left empty.
LockExpired(p) == 0

\* ptr.lock() of a weak_ptr of G: every pointee of G is alive while G is
\* saved, an empty or expired weak_ptr has tgt 0.
Lock(p) == p.tgt

\* save( ar, std::weak_ptr<T> const & )
SaveWeak ==
  /\ phase = "save" /\ agenda # <<>> /\ Head(agenda).kind = "weak"
  /\ SaveSharedWrapper(Lock(Head(agenda)))
  /\ UNCHANGED <<graphVars, phase, loadVars>>

\* if( !ptr ) of the unique_ptr wrapper: the validity byte written.
SaveValidByte(addr) == IF addr = 0 THEN 0 ELSE 1

\* save( ar, std::unique_ptr<T, D> const & ) and its wrapper
SaveUnique ==
  /\ phase = "save" /\ agenda # <<>> /\ Head(agenda).kind = "unique"
  /\ LET a == Head(agenda).tgt
         b == SaveValidByte(a)
     IN /\ stream' = stream \o <<Field("ptr_wrapper", 0), Field("valid", b)>>
                        \o (IF b = 1 THEN <<Field("data", a)>> ELSE <<>>)
        /\ saveLog' = Append(saveLog, LogEntry("unique", a, Id(FALSE, 0), b, b = 1))
        /\ agenda' = (IF b = 1 THEN <<gfld[a]>> ELSE <<>>) \o Tail(agenda)
  /\ UNCHANGED <<graphVars, phase, saveMap, nextId, loadVars>>

----------------------------------------------------------------------------
(* The loaded heap *)

\* An instance allocated by load.
\*   own      "shared": held by shared_ptr control blocks; "unique": held by
\*            the destination unique_ptr<T, D>; "raw": held by the local
\*            std::unique_ptr<ST> stPtr of the unique_ptr hook load
\*   ctl      TRUE when the owner carries the deleter lambda with the valid flag
\*   st       state of the storage: "uninit" until a T is constructed in it
\*   valid    *valid of the shared_ptr hook load
\*   fld      the pointer member of the constructed T, fkind its static kind
\*   weakThis the weak back-reference of enable_shared_from_this (0: empty)
\*   src      the pointee of G whose data was read into the instance
\*   freed    the storage was released; dtor: "none", "live" (~T ran on a
\*            constructed T) or "raw" (~T ran on uninitialized storage)
NewInst(own, ctl, st, wt) ==
  [own |-> own, ctl |-> ctl, st |-> st, valid |-> FALSE, fld |-> 0,
   fkind |-> "shared", weakThis |-> wt, src |-> 0, freed |-> FALSE,
   dtor |-> "none"]

\* A call frame of the load traversal.
\*   dst   the pointer the call was given by reference (wrapper.ptr)
\*   id    the identifier read; inst: the instance the call allocated
\*   tmp   the local pointer of the call (sptr; the hook's argument)
\*   snap  itsState of the EnableSharedHelper of the call
Frame(proc, pc, dst) ==
  [proc |-> proc, pc |-> pc, dst |-> dst, id |-> Id(FALSE, 0), inst |-> 0,
   tmp |-> 0, snap |-> 0]

Dst(t, i) == [t |-> t, i |-> i]

Top == stack[Len(stack)]
Pop(st) == SubSeq(st, 1, Len(st) - 1)
SetTop(st, f) == [st EXCEPT ![Len(st)] = f]

HasHook == variant \in {"hook", "hookSFT"}
HasSFT == variant = "hookSFT"

\* Assignment through the reference a frame was given (wrapper.ptr).
WriteRoot(rd, d, v) == IF d.t = "root" THEN [rd EXCEPT ![d.i] = v] ELSE rd
WriteField(hp, d, v) == IF d.t = "field" THEN [hp EXCEPT ![d.i].fld = v] ELSE hp
WriteLocal(st, d, v) == IF d.t = "frame" THEN [st EXCEPT ![d.i].tmp = v] ELSE st

\* The next fields of the stream are the ones requested under the given
\* names, in order (a request without a name takes the next object).
Avail(n) == pos + n <= Len(stream)
Expect(names) ==
  /\ Avail(Len(names))
  /\ \A k \in DOMAIN names :
       stream[pos + k].name = (IF names[k] = "" THEN "data" ELSE names[k])
Peek(k) == stream[pos + k].v
Consume(names) ==
  /\ pos' = pos + Len(names)
  /\ consumed' = consumed \o names

----------------------------------------------------------------------------
(* Load-side registry of the archive (cereal.hpp, InputArchive) *)

\* registerSharedPointer(id, ptr): itsSharedPointerMap[id & ~msb] = ptr.
\* The map holds the shared_ptr itself, a strong owner, until the archive dies.
registerLoaded(map, id, ptr) ==
  [i \in DOMAIN map \cup {StripMsb(id).low} |->
     IF i = StripMsb(id).low THEN ptr ELSE map[i]]

\* getSharedPointer(id): null for 0, the registered owner, or a failure.
Known(map, id) == id.low = 0 \/ id.low \in DOMAIN map
getSharedPointer(map, id) == IF id.low = 0 THEN 0 ELSE map[id.low]

----------------------------------------------------------------------------
(* Release of storage *)

\* if( valid ) of the deleter lambda: valid is the std::shared_ptr<bool>
\* captured by copy, the test is on the pointer, which make_shared never
\* leaves null; v is the bool it points at.
DeleterTestsValid(v) == TRUE

\* Variant of DeleterDtor: stPtr declared as a unique_ptr of T, not of ST.
DeleterDtorAsT(x) == IF x.st = "init" THEN "live" ELSE "raw"

\* What the owner's deleter does with instance x when its last owner goes.
DeleterDtor(x) ==
  IF x.own = "raw" THEN "none"
  ELSE IF x.ctl /\ ~DeleterTestsValid(x.valid) THEN "none"
  ELSE IF x.st = "init" THEN "live" ELSE "raw"

\* Strong owners outside the heap: the registry, the top-level shared and
\* unique destinations, and the locals of the frames in progress.
FrameHeld(hp, st) ==
  {st[k].tmp : k \in {n \in DOMAIN st : st[n].proc = "weak"}}
    \cup {st[k].tmp : k \in {n \in DOMAIN st :
             st[n].proc = "hook" /\ hp[st[n].inst].fkind # "weak"}}
    \cup {st[k].inst : k \in {n \in DOMAIN st :
             st[n].proc = "unique" /\ st[n].inst # 0}}

StrongRoots(hp, map, rd, st) ==
  {map[i] : i \in DOMAIN map}
    \cup {rd[r] : r \in {n \in DOMAIN rd : roots[n].kind # "weak"}}
    \cup FrameHeld(hp, st)

Held(hp, S, ext, i) ==
  \/ i \in ext
  \/ \E j \in S : hp[j].st = "init" /\ hp[j].fkind # "weak" /\ hp[j].fld = i

RECURSIVE Survivors(_, _, _, _)
Survivors(hp, S, ext, n) ==
  IF n = 0 THEN S
  ELSE Survivors(hp, {i \in S : Held(hp, S, ext, i)}, ext, n - 1)

\* Reference counting: an instance is released when no strong owner is left.
Alive(hp, map, rd, st) ==
  Survivors(hp, {i \in DOMAIN hp : ~hp[i].freed},
            StrongRoots(hp, map, rd, st), Len(hp))

Collect(hp, map, rd, st) ==
  LET live == Alive(hp, map, rd, st)
  IN [i \in DOMAIN hp |->
        IF hp[i].freed \/ i \in live THEN hp[i]
        ELSE [hp[i] EXCEPT !.freed = TRUE, !.dtor = DeleterDtor(hp[i])]]

\* std::weak_ptr::expired() of a loaded weak pointer value.
Expired(hp, w) == w = 0 \/ (w # Prev /\ hp[w].freed)

----------------------------------------------------------------------------
(* Load *)

StartPc(kind) ==
  CASE kind = "shared" -> "id" [] kind = "weak" -> "call" [] OTHER -> "valid"

PushLoad(st, kind, dst) == Append(st, Frame(kind, StartPc(kind), dst))

\* Variant of Throw: the failure is recorded and the call carries on.
ThrowSwallowed(e) ==
  /\ err' = e
  /\ phase' = phase

\* throw: the failure e leaves the call in progress.
Throw(e) ==
  /\ err' = e
  /\ phase' = "unwind"

\* ar( first, second ) of the client: load of the next top-level pointer.
LoadRoot ==
  /\ phase = "load" /\ stack = <<>> /\ rootIdx <= Len(roots)
  /\ stack' = PushLoad(stack, roots[rootIdx].kind, Dst("root", rootIdx))
  /\ rootIdx' = rootIdx + 1
  /\ UNCHANGED <<graphVars, phase, saveVars, pos, loadMap, rootDst, heap,
                 consumed, err>>

\* The top-level load call returns to the client.
LoadFinish ==
  /\ phase = "load" /\ stack = <<>> /\ rootIdx > Len(roots)
  /\ phase' = "loaded"
  /\ UNCHANGED <<graphVars, saveVars, loadVars>>

\* Variants of registerFirstOccurrence: the call left out, and the call made
\* before ptr.reset, with the destination still empty.
registerFirstOccurrenceSkipped(map, id, ptr) == map
registerFirstOccurrenceStale(map, id, ptr) == registerLoaded(map, id, 0)

\* ar.registerSharedPointer( id, ptr ) of the shared_ptr load wrappers, placed
\* between ptr.reset( ... ) and the read of the pointee.
registerFirstOccurrence(map, id, ptr) == registerLoaded(map, id, ptr)

\* Variant of LoadReadsData: every non-null identifier starts a pointee.
LoadReadsDataForAnyId(id) == id.low # 0

\* if( id & detail::msb_32bit ) of the shared_ptr load wrappers.
LoadReadsData(id) == HasMsb(id)

\* Variant of InitialValid: the flag starts out set.
InitialValidTrue == TRUE

\* auto valid = std::make_shared<bool>( false )
InitialValid == FALSE

\* load( ar, PtrWrapper<std::shared_ptr<T> &> ), both variants, up to the
\* registration: read id; on first occurrence ptr.reset( new T / new ST ),
\* ar.registerSharedPointer( id, ptr ); else ptr = ar.getSharedPointer( id ).
LoadSharedId ==
  /\ phase = "load" /\ stack # <<>> /\ Top.proc = "shared" /\ Top.pc = "id"
  /\ Expect(<<"ptr_wrapper", "id">>)
  /\ Consume(<<"ptr_wrapper", "id">>)
  /\ LET id == Peek(2)
         i == Len(heap) + 1
         x == IF HasHook
              THEN [NewInst("shared", TRUE, "uninit", IF HasSFT THEN i ELSE 0)
                      EXCEPT !.valid = InitialValid]
              ELSE NewInst("shared", FALSE, "init", 0)
     IN IF LoadReadsData(id)
        THEN /\ heap' = WriteField(Append(heap, x), Top.dst, i)
             /\ rootDst' = WriteRoot(rootDst, Top.dst, i)
             /\ loadMap' = registerFirstOccurrence(loadMap, id, i)
             /\ stack' = SetTop(WriteLocal(stack, Top.dst, i),
                   [Top EXCEPT !.id = id, !.inst = i,
                               !.pc = IF HasHook THEN "construct" ELSE "data"])
             /\ UNCHANGED <<phase, err>>
        ELSE IF Known(loadMap, id)
        THEN /\ heap' = WriteField(heap, Top.dst, getSharedPointer(loadMap, id))
             /\ rootDst' = WriteRoot(rootDst, Top.dst, getSharedPointer(loadMap, id))
             /\ stack' = Pop(WriteLocal(stack, Top.dst, getSharedPointer(loadMap, id)))
             /\ UNCHANGED <<phase, err, loadMap>>
        ELSE /\ Throw("unknown id")
             /\ UNCHANGED <<heap, rootDst, stack, loadMap>>
  /\ UNCHANGED <<graphVars, saveVars, rootIdx>>

\* The "data" field is entered: the members of pointee o are read into i.
EnterData(hp, i, o) == [hp EXCEPT ![i].src = o, ![i].fkind = gfld[o].kind]

\* ar( "data", *ptr ) of the shared_ptr load without load_and_construct.
LoadSharedData ==
  /\ phase = "load" /\ stack # <<>> /\ Top.proc = "shared" /\ Top.pc = "data"
  /\ Expect(<<"data">>)
  /\ Consume(<<"data">>)
  /\ heap' = EnterData(heap, Top.inst, Peek(1))
  /\ stack' = PushLoad(SetTop(stack, [Top EXCEPT !.pc = "ret"]),
                       gfld[Peek(1)].kind, Dst("field", Top.inst))
  /\ UNCHANGED <<graphVars, phase, saveVars, rootIdx, loadMap, rootDst, err>>

\* A load wrapper returns after the pointee's data.
LoadReturn ==
  /\ phase = "load" /\ stack # <<>> /\ Top.pc = "ret"
  /\ stack' = Pop(stack)
  /\ UNCHANGED <<graphVars, phase, saveVars, pos, rootIdx, loadMap, rootDst,
                 heap, consumed, err>>

\* Variant of EnableSharedHelper: itsState() without the copy.
EnableSharedHelperEmpty(hp, i) == 0

\* EnableSharedHelper( T * ptr ): memcpy of the enable_shared_from_this base.
EnableSharedHelper(hp, i) == hp[i].weakThis

\* Variant of restore: the image is not copied back.
restoreNothing(hp, i, image) == hp

\* EnableSharedHelper::restore(): memcpy of the saved image back.
restore(hp, i, image) == [hp EXCEPT ![i].weakThis = image]

\* loadAndConstructSharedPtr( ar, ptr.get(), has_shared_from_this<T> ), up to
\* the archive call: the helper saves the base (true_type only), then
\* ar( "data", loadWrapper ) enters the construction hook.
LoadAndConstructShared ==
  /\ phase = "load" /\ stack # <<>>
  /\ Top.proc = "shared" /\ Top.pc = "construct"
  /\ Expect(<<"data">>)
  /\ Consume(<<"data">>)
  /\ heap' = EnterData(heap, Top.inst, Peek(1))
  /\ stack' = Append(
       SetTop(stack, [Top EXCEPT
          !.snap = IF HasSFT THEN EnableSharedHelper(heap, Top.inst) ELSE 0,
          !.pc = IF HasSFT THEN "restore" ELSE "valid"]),
       [Frame("hook", "args", Dst("none", 0)) EXCEPT !.inst = Top.inst])
  /\ UNCHANGED <<graphVars, phase, saveVars, rootIdx, loadMap, rootDst, err>>

\* helper.restore() after the archive call returned (true_type overload).
HelperRestore ==
  /\ phase = "load" /\ stack # <<>>
  /\ Top.proc = "shared" /\ Top.pc = "restore"
  /\ heap' = restore(heap, Top.inst, Top.snap)
  /\ stack' = SetTop(stack, [Top EXCEPT !.pc = "valid"])
  /\ UNCHANGED <<graphVars, phase, saveVars, pos, rootIdx, loadMap, rootDst,
                 consumed, err>>

\* Variant of SetValid: the assignment is left out.
SetValidSkipped(hp, i) == hp

\* *valid = true
SetValid(hp, i) == [hp EXCEPT ![i].valid = TRUE]

\* *valid = true, and the wrapper returns.
MarkValid ==
  /\ phase = "load" /\ stack # <<>>
  /\ Top.proc = "shared" /\ Top.pc = "valid"
  /\ heap' = SetValid(heap, Top.inst)
  /\ stack' = Pop(stack)
  /\ UNCHANGED <<graphVars, phase, saveVars, pos, rootIdx, loadMap, rootDst,
                 consumed, err>>

\* LoadAndConstructLoadWrapper::serialize -> load_and_construct of T: the
\* hook first reads the constructor argument (the pointer member) ...
HookLoadArgs ==
  /\ phase = "load" /\ stack # <<>> /\ Top.proc = "hook" /\ Top.pc = "args"
  /\ stack' = PushLoad(SetTop(stack, [Top EXCEPT !.pc = "new"]),
                       heap[Top.inst].fkind, Dst("frame", Len(stack)))
  /\ UNCHANGED <<graphVars, phase, saveVars, pos, rootIdx, loadMap, rootDst,
                 heap, consumed, err>>

\* ... then construct( args ): placement new of T in the storage. The
\* constructor of the enable_shared_from_this base empties the back-reference.
HookConstruct ==
  /\ phase = "load" /\ stack # <<>> /\ Top.proc = "hook" /\ Top.pc = "new"
  /\ heap' = [heap EXCEPT ![Top.inst].st = "init",
                          ![Top.inst].fld = Top.tmp,
                          ![Top.inst].weakThis = 0]
  /\ stack' = Pop(stack)
  /\ UNCHANGED <<graphVars, phase, saveVars, pos, rootIdx, loadMap, rootDst,
                 consumed, err>>

\* The hook throws before it has constructed anything.
HookFail ==
  /\ phase = "load" /\ stack # <<>> /\ Top.proc = "hook"
  /\ Throw("construct")
  /\ UNCHANGED <<graphVars, saveVars, pos, rootIdx, stack, loadMap, rootDst,
                 heap, consumed>>

\* load( ar, std::weak_ptr<T> & ): std::shared_ptr<T> sptr; ar( wrapper( sptr ) )
LoadWeak ==
  /\ phase = "load" /\ stack # <<>> /\ Top.proc = "weak" /\ Top.pc = "call"
  /\ stack' = PushLoad(SetTop(stack, [Top EXCEPT !.pc = "assign"]),
                       "shared", Dst("frame", Len(stack)))
  /\ UNCHANGED <<graphVars, phase, saveVars, pos, rootIdx, loadMap, rootDst,
                 heap, consumed, err>>

\* Variant of WeakFromShared: the assignment is lost.
WeakFromSharedEmpty(sptr) == 0

\* The weak_ptr that ptr = sptr assigns.
WeakFromShared(sptr) == sptr

\* ptr = sptr; and sptr goes out of scope.
LoadWeakAssign ==
  /\ phase = "load" /\ stack # <<>> /\ Top.proc = "weak" /\ Top.pc = "assign"
  /\ rootDst' = WriteRoot(rootDst, Top.dst, WeakFromShared(Top.tmp))
  /\ stack' = Pop(WriteLocal(stack, Top.dst, WeakFromShared(Top.tmp)))
  /\ heap' = Collect(WriteField(heap, Top.dst, WeakFromShared(Top.tmp)),
                     loadMap, rootDst', stack')
  /\ UNCHANGED <<graphVars, phase, saveVars, pos, rootIdx, loadMap, consumed, err>>

\* Variant of LoadIsValid: the pointer is taken to be empty.
LoadIsValidNever(b) == FALSE

\* Variant of LoadIsValid: the validity byte is not looked at.
LoadIsValidAlways(b) == TRUE

\* if( isValid ) of the unique_ptr load wrappers.
LoadIsValid(b) == b # 0

\* load( ar, PtrWrapper<std::unique_ptr<T, D> &> ), both variants, up to the
\* data: read valid; if set ptr.reset( new T ) (no hook) or
\* std::unique_ptr<ST> stPtr( new ST() ) (hook); else ptr.reset( nullptr ).
LoadUniqueValid ==
  /\ phase = "load" /\ stack # <<>> /\ Top.proc = "unique" /\ Top.pc = "valid"
  /\ Expect(<<"ptr_wrapper", "valid">>)
  /\ Consume(<<"ptr_wrapper", "valid">>)
  /\ LET i == Len(heap) + 1
     IN IF LoadIsValid(Peek(2))
        THEN IF HasHook
             THEN /\ heap' = Append(heap, NewInst("raw", FALSE, "uninit", 0))
                  /\ stack' = SetTop(stack, [Top EXCEPT !.inst = i, !.pc = "construct"])
                  /\ UNCHANGED rootDst
             ELSE /\ heap' = WriteField(Append(heap, NewInst("unique", FALSE, "init", 0)),
                                        Top.dst, i)
                  /\ rootDst' = WriteRoot(rootDst, Top.dst, i)
                  /\ stack' = SetTop(WriteLocal(stack, Top.dst, i),
                                     [Top EXCEPT !.inst = i, !.pc = "data"])
        ELSE /\ heap' = WriteField(heap, Top.dst, 0)
             /\ rootDst' = WriteRoot(rootDst, Top.dst, 0)
             /\ stack' = Pop(WriteLocal(stack, Top.dst, 0))
  /\ UNCHANGED <<graphVars, phase, saveVars, rootIdx, loadMap, err>>

\* ar( *ptr ) of the unique_ptr load without load_and_construct: the pointee
\* is requested from the archive without a name.
LoadUniqueData ==
  /\ phase = "load" /\ stack # <<>> /\ Top.proc = "unique" /\ Top.pc = "data"
  /\ Expect(<<"">>)
  /\ Consume(<<"">>)
  /\ heap' = EnterData(heap, Top.inst, Peek(1))
  /\ stack' = PushLoad(SetTop(stack, [Top EXCEPT !.pc = "ret"]),
                       gfld[Peek(1)].kind, Dst("field", Top.inst))
  /\ UNCHANGED <<graphVars, phase, saveVars, rootIdx, loadMap, rootDst, err>>

\* ar( "data", loadWrapper ) of the unique_ptr load with load_and_construct.
LoadUniqueConstruct ==
  /\ phase = "load" /\ stack # <<>>
  /\ Top.proc = "unique" /\ Top.pc = "construct"
  /\ Expect(<<"data">>)
  /\ Consume(<<"data">>)
  /\ heap' = EnterData(heap, Top.inst, Peek(1))
  /\ stack' = Append(SetTop(stack, [Top EXCEPT !.pc = "transfer"]),
       [Frame("hook", "args", Dst("none", 0)) EXCEPT !.inst = Top.inst])
  /\ UNCHANGED <<graphVars, phase, saveVars, rootIdx, loadMap, rootDst, err>>

\* ptr.reset( reinterpret_cast<T *>( stPtr.release() ) )
LoadUniqueTransfer ==
  /\ phase = "load" /\ stack # <<>>
  /\ Top.proc = "unique" /\ Top.pc = "transfer"
  /\ heap' = WriteField([heap EXCEPT ![Top.inst].own = "unique"], Top.dst, Top.inst)
  /\ rootDst' = WriteRoot(rootDst, Top.dst, Top.inst)
  /\ stack' = Pop(WriteLocal(stack, Top.dst, Top.inst))
  /\ UNCHANGED <<graphVars, phase, saveVars, pos, rootIdx, loadMap, consumed, err>>

\* An exception leaves one frame: its locals (stPtr, sptr, the hook's
\* argument) are destroyed.
Unwind ==
  /\ phase = "unwind" /\ stack # <<>>
  /\ stack' = Pop(stack)
  /\ heap' = Collect(heap, loadMap, rootDst, stack')
  /\ UNCHANGED <<graphVars, phase, saveVars, pos, rootIdx, loadMap, rootDst,
                 consumed, err>>

\* The exception reaches the caller of the top-level load.
Propagate ==
  /\ phase = "unwind" /\ stack = <<>>
  /\ phase' = "failed"
  /\ UNCHANGED <<graphVars, saveVars, loadVars>>

\* The input archive is destroyed, and with it itsSharedPointerMap.
CloseArchive ==
  /\ phase \in {"loaded", "failed"}
  /\ loadMap' = <<>>
  /\ heap' = Collect(heap, <<>>, rootDst, stack)
  /\ phase' = "closed"
  /\ UNCHANGED <<graphVars, saveVars, pos, rootIdx, stack, rootDst, consumed, err>>

\* The client drops the loaded top-level pointers.
DropRoots ==
  /\ phase = "closed"
  /\ rootDst' = [r \in DOMAIN rootDst |-> 0]
  /\ heap' = Collect(heap, loadMap, rootDst', stack)
  /\ phase' = "done"
  /\ UNCHANGED <<graphVars, saveVars, pos, rootIdx, stack, loadMap, consumed, err>>

\* The saved stream is handed to an input archive.
BeginLoad ==
  /\ phase = "save" /\ agenda = <<>>
  /\ phase' = "load"
  /\ UNCHANGED <<graphVars, saveVars, loadVars>>

\* Identifiers that no load call of the traversal has registered so far.
Unregistered == {n \in 1..(NObj + 1) : n \notin DOMAIN loadMap}

\* The input is not what save wrote (corrupt or truncated input): the
\* identifier the shared_ptr load is about to read is the least one that was
\* never registered, with the first-occurrence flag clear. Load reads the
\* input in order and has not looked at this field yet.
CorruptInput ==
  /\ phase = "load" /\ stack # <<>> /\ Top.proc = "shared" /\ Top.pc = "id"
  /\ Expect(<<"ptr_wrapper", "id">>)
  /\ HasMsb(Peek(2)) \/ Known(loadMap, Peek(2))
  /\ LET n == CHOOSE m \in Unregistered : \A k \in Unregistered : m <= k
     IN stream' = [stream EXCEPT ![pos + 2] = Field("id", Id(FALSE, n))]
  /\ UNCHANGED <<graphVars, phase, agenda, saveMap, nextId, saveLog, loadVars>>

----------------------------------------------------------------------------

Init ==
  /\ roots \in RootSeqs
  /\ gfld \in [Obj -> Ptr]
  /\ WellFormed(roots, gfld)
  /\ variant \in Variants
  /\ phase = "save"
  /\ agenda = roots
  /\ stream = <<>>
  /\ saveMap = [o \in Obj |-> 0]
  /\ nextId = 1
  /\ saveLog = <<>>
  /\ pos = 0
  /\ rootIdx = 1
  /\ stack = <<>>
  /\ loadMap = <<>>
  /\ rootDst = [r \in DOMAIN roots |-> Prev]
  /\ heap = <<>>
  /\ consumed = <<>>
  /\ err = "none"

Next ==
  \/ SaveShared \/ SaveWeak \/ SaveUnique \/ BeginLoad
  \/ LoadRoot \/ LoadFinish
  \/ LoadSharedId \/ LoadSharedData \/ LoadReturn
  \/ LoadAndConstructShared \/ HelperRestore \/ MarkValid
  \/ HookLoadArgs \/ HookConstruct \/ HookFail
  \/ LoadWeak \/ LoadWeakAssign
  \/ LoadUniqueValid \/ LoadUniqueData \/ LoadUniqueConstruct \/ LoadUniqueTransfer
  \/ Unwind \/ Propagate \/ CloseArchive \/ DropRoots

Spec == Init /\ [][Next]_vars

\* Save and load where the stream handed to load may be corrupt.
NextCorrupt == Next \/ CorruptInput

SpecCorrupt == Init /\ [][NextCorrupt]_vars

----------------------------------------------------------------------------
(* Vocabulary of the properties *)

\* The value a destination holds.
DstValue(d) ==
  CASE d.t = "root" -> rootDst[d.i]
    [] d.t = "field" -> heap[d.i].fld
    [] d.t = "frame" -> stack[d.i].tmp
    [] OTHER -> 0

\* What a destination holds before the load that was given it.
DstInitial(d) == IF d.t = "root" THEN Prev ELSE 0

Registered(i) == \E n \in DOMAIN loadMap : loadMap[n] = i

\* The shared_ptr wrappers saved for pointee o (owners of o and temporaries
\* locked from weak references to o), as indices into saveLog.
SharedVisits(o) ==
  {k \in DOMAIN saveLog : saveLog[k].via = "shared" /\ saveLog[k].tgt = o}

FirstOf(S) == CHOOSE k \in S : \A m \in S : k <= m

\* The "data" fields written for pointee o.
DataFields(o) ==
  {n \in DOMAIN stream : stream[n].name = "data" /\ stream[n].v = o}

\* Number of fields the k-th wrapper save wrote.
EmittedWidth(k) ==
  (IF k < Len(saveLog) THEN saveLog[k + 1].at ELSE Len(stream)) - saveLog[k].at

NullId == Id(FALSE, 0)

----------------------------------------------------------------------------
(* C1 *)

\* C1: in a load traversal, once a shared_ptr load has read an identifier
\* with the first-occurrence flag set, the new owner is registered under that
\* identifier before the pointee's data is entered, any member is read or the
\* construction hook runs: every shared_ptr load call past its identifier, every
\* running hook of a shared instance and every shared instance whose data was
\* entered finds the owner in the registry (both variants).
C1_RegisteredBeforeData ==
  phase \in {"load", "unwind"} =>
    /\ \A k \in DOMAIN stack :
         stack[k].proc = "shared" /\ stack[k].inst # 0 =>
           /\ HasMsb(stack[k].id)
           /\ stack[k].id.low \in DOMAIN loadMap
           /\ loadMap[stack[k].id.low] = stack[k].inst
    /\ \A k \in DOMAIN stack :
         stack[k].proc = "hook" /\ heap[stack[k].inst].own = "shared" =>
           Registered(stack[k].inst)
    /\ \A i \in DOMAIN heap :
         heap[i].own = "shared" /\ (heap[i].src # 0 \/ heap[i].fld # 0) =>
           Registered(i)

\* A construction hook of a shared instance is about to construct, its
\* argument read, and the instance is found under the identifier read.
C1_Witness ==
  /\ phase = "load" /\ Len(stack) >= 2
  /\ Top.proc = "hook" /\ Top.pc = "new"
  /\ stack[Len(stack) - 1].proc = "shared"
  /\ loadMap[stack[Len(stack) - 1].id.low] = Top.inst

----------------------------------------------------------------------------
(* C2 *)

\* C2: in a save traversal, for every pointee that N >= 1 shared_ptr wrappers
\* were saved for (its shared owners, and the temporaries locked from weak
\* references to it), the data is written exactly once, by the first of them,
\* whose identifier has the first-occurrence flag set; each of the other N-1
\* writes only the same identifier with the flag clear, and no data.
C2_DataOnce ==
  \A o \in Obj :
    SharedVisits(o) # {} =>
      LET first == FirstOf(SharedVisits(o))
      IN /\ saveLog[first].data
         /\ HasMsb(saveLog[first].id)
         /\ Cardinality(DataFields(o)) = 1
         /\ \A k \in SharedVisits(o) \ {first} :
              /\ ~saveLog[k].data
              /\ saveLog[k].id = StripMsb(saveLog[first].id)
              /\ EmittedWidth(k) = 2
              /\ stream[saveLog[k].at + 2].name = "id"
              /\ stream[saveLog[k].at + 2].v = saveLog[k].id

\* Save is complete and some pointee was saved through three shared_ptrs.
C2_Witness ==
  /\ phase = "load"
  /\ \E o \in Obj : Cardinality(SharedVisits(o)) >= 3

----------------------------------------------------------------------------
(* C3 *)

\* C3: when the construction hook of a shared_ptr load fails after the raw
\* storage was allocated and before construction completed, the failure
\* reaches the caller of load, and when the storage is released ~T is not run
\* on it: storage of a shared instance that is released uninitialized has had
\* no destructor call.
C3_NoDtorOnFailedConstruction ==
  /\ err = "construct" => phase \notin {"load", "loaded"}
  /\ \A i \in DOMAIN heap :
       heap[i].own = "shared" /\ heap[i].ctl /\ heap[i].st = "uninit"
         /\ heap[i].freed => heap[i].dtor = "none"

----------------------------------------------------------------------------
(* C4 *)

\* C4: when the construction hook of a unique_ptr load fails, the raw storage
\* is freed without a destructor call, the destination unique_ptr still holds
\* what it held before the load, and the failure reaches the caller: storage
\* held by stPtr is only ever freed without ~T, the destination of a load whose
\* storage is still held by stPtr has its value from before the load, and once
\* the failure has reached the caller the top-level unique_ptr being loaded
\* holds its previous value and all such storage is gone.
C4_UniqueHookFailure ==
  /\ \A i \in DOMAIN heap :
       heap[i].own = "raw" /\ heap[i].freed =>
         heap[i].dtor = "none" /\ heap[i].st = "uninit"
  /\ \A k \in DOMAIN stack :
       stack[k].proc = "unique" /\ stack[k].inst # 0
         /\ heap[stack[k].inst].own = "raw" =>
           DstValue(stack[k].dst) = DstInitial(stack[k].dst)
  /\ err # "none" => phase \notin {"load", "loaded"}
  /\ phase = "failed" /\ HasHook =>
       /\ \A i \in DOMAIN heap : heap[i].own = "raw" => heap[i].freed
       /\ roots[rootIdx - 1].kind = "unique" => rootDst[rootIdx - 1] = Prev

\* A hook failed under a top-level unique_ptr load: the failure is with the
\* caller, the storage was freed raw and the destination is as before.
C4_Witness ==
  /\ phase = "failed" /\ err = "construct"
  /\ roots[rootIdx - 1].kind = "unique"
  /\ rootDst[rootIdx - 1] = Prev
  /\ \E i \in DOMAIN heap :
       /\ heap[i].own = "raw" /\ heap[i].freed /\ heap[i].dtor = "none"
       /\ heap[i].src = roots[rootIdx - 1].tgt

----------------------------------------------------------------------------
(* C5 *)

\* The top-level pointer r is a shared owner of a, a holds a shared pointer
\* to b and b holds a shared pointer back to a.
IsSharedCycle(r, a, b) ==
  /\ a # b
  /\ roots[r] = [kind |-> "shared", tgt |-> a]
  /\ gfld[a] = [kind |-> "shared", tgt |-> b]
  /\ gfld[b] = [kind |-> "shared", tgt |-> a]

\* C5: a graph in which A holds a shared pointer to B and B one back to A is
\* saved and loaded without unbounded recursion (no pointer slot is saved
\* twice, no pointee's data is written twice, load allocates no more instances
\* than there are pointees, the call stack stays bounded and every state
\* before the end has a next step), load never fails on an unknown
\* identifier, and after load B's pointer is the instance the top-level
\* pointer to A holds.
C5_SharedCycle ==
  \A r \in DOMAIN roots, a \in Obj, b \in Obj :
    IsSharedCycle(r, a, b) =>
      /\ err # "unknown id"
      /\ Len(saveLog) <= Cardinality(Slots(roots, gfld))
      /\ \A o \in Obj : Cardinality(DataFields(o)) <= 1
      /\ Len(heap) <= NObj
      /\ Len(stack) <= 3 * (NObj + 1)
      /\ phase # "done" => ENABLED Next
      /\ phase = "loaded" =>
           /\ rootDst[r] \in DOMAIN heap
           /\ heap[rootDst[r]].src = a
           /\ heap[rootDst[r]].fld \in DOMAIN heap
           /\ heap[rootDst[r]].fld # rootDst[r]
           /\ heap[heap[rootDst[r]].fld].src = b
           /\ heap[heap[rootDst[r]].fld].fld = rootDst[r]

\* The cyclic graph has been saved and loaded.
C5_Witness ==
  /\ phase = "loaded"
  /\ \E r \in DOMAIN roots, a \in Obj, b \in Obj :
       IsSharedCycle(r, a, b) /\ heap[heap[rootDst[r]].fld].fld = rootDst[r]

----------------------------------------------------------------------------
(* C6 *)

RECURSIVE Walk(_, _)
\* The pointee reached from o by following n pointer members (0: the end).
Walk(o, n) == IF o = 0 \/ n = 0 THEN o ELSE Walk(gfld[o].tgt, n - 1)

\* No pointee reaches itself through pointer members of any kind.
Acyclic == \A o \in Obj : Walk(o, NObj) = 0

\* A loaded pointer value mirrors pointer slot p of G.
Mirrors(p, v) ==
  IF p.tgt = 0 THEN v = 0
  ELSE /\ v \in DOMAIN heap
       /\ heap[v].src = p.tgt
       /\ heap[v].st = "init"
       /\ ~heap[v].freed

\* The loaded graph is structurally equal to G, pointee for pointee, and one
\* pointee of G has one instance.
RoundTrip ==
  /\ \A r \in DOMAIN roots : Mirrors(roots[r], rootDst[r])
  /\ \A i \in DOMAIN heap :
       /\ heap[i].src \in Obj
       /\ heap[i].fkind = gfld[heap[i].src].kind
       /\ Mirrors(gfld[heap[i].src], heap[i].fld)
  /\ \A i \in DOMAIN heap, j \in DOMAIN heap :
       heap[i].src = heap[j].src => i = j
  /\ \A o \in Obj : \E i \in DOMAIN heap : heap[i].src = o

\* Pointee o has a shared or exclusive owner within G.
OwnedInG(o) ==
  OwnersOf(roots, gfld, o, "shared") \cup OwnersOf(roots, gfld, o, "unique") # {}

\* C6: for an acyclic graph G of shared, exclusive and weak pointers, load
\* does not fail on an identifier and, when it returns, the loaded graph is
\* structurally equal to G, pointers that shared a pointee in G hold one and
\* the same instance and distinct pointees have distinct instances; when
\* every pointee has an owner within G this still holds once the archive is
\* gone.
C6_RoundTrip ==
  Acyclic =>
    /\ err # "unknown id"
    /\ phase = "loaded" => RoundTrip
    /\ phase = "closed" /\ err = "none" /\ (\A o \in Obj : OwnedInG(o))
         => RoundTrip

\* An acyclic graph in which both top-level pointers are shared owners of one
\* pointee, which exclusively owns another, was loaded and outlived its
\* archive: both loaded pointers hold the same instance.
C6_Witness ==
  /\ Acyclic /\ phase = "closed" /\ err = "none"
  /\ \A o \in Obj : OwnedInG(o)
  /\ \E o \in Obj : Cardinality(OwnersOf(roots, gfld, o, "shared")) >= 2
  /\ \E o \in Obj : OwnersOf(roots, gfld, o, "unique") # {}
  /\ rootDst[1] = rootDst[2] /\ rootDst[1] \in DOMAIN heap

----------------------------------------------------------------------------
(* C7 *)

\* Every null pointer is saved as the reserved encoding only: two fields,
\* "ptr_wrapper" and the identifier 0 with the flag clear (shared, weak) or the
\* validity byte 0 (exclusive), and no data. After load every null pointer of
\* G is null and every instance allocated mirrors a pointee of G.
C7_NullState ==
  /\ \A k \in DOMAIN saveLog :
       saveLog[k].tgt = 0 =>
         /\ ~saveLog[k].data
         /\ EmittedWidth(k) = 2
         /\ stream[saveLog[k].at + 1].name = "ptr_wrapper"
         /\ saveLog[k].via = "shared" =>
              /\ saveLog[k].id = NullId
              /\ stream[saveLog[k].at + 2].name = "id"
              /\ stream[saveLog[k].at + 2].v = NullId
         /\ saveLog[k].via = "unique" =>
              /\ saveLog[k].valid = 0
              /\ stream[saveLog[k].at + 2].name = "valid"
              /\ stream[saveLog[k].at + 2].v = 0
  /\ phase = "loaded" =>
       /\ \A r \in DOMAIN roots : roots[r].tgt = 0 => rootDst[r] = 0
       /\ \A i \in DOMAIN heap :
            /\ heap[i].src # 0
            /\ gfld[heap[i].src].tgt = 0 => heap[i].fld = 0

\* The next fields of the stream are the null encoding of the pointer the
\* load call on top of the stack is about to read.
NullEncodingNext ==
  /\ phase = "load" /\ stack # <<>>
  /\ \/ /\ Top.proc = "shared" /\ Top.pc = "id"
        /\ Expect(<<"ptr_wrapper", "id">>) /\ stream[pos + 2].v = NullId
     \/ /\ Top.proc = "unique" /\ Top.pc = "valid"
        /\ Expect(<<"ptr_wrapper", "valid">>) /\ stream[pos + 2].v = 0

\* Loading the null encoding: the call returns with its destination null,
\* nothing allocated, registered or failed, and no hook entered.
C7_NullLoadStep ==
  NullEncodingNext =>
    /\ heap' = WriteField(heap, Top.dst, 0)
    /\ rootDst' = WriteRoot(rootDst, Top.dst, 0)
    /\ stack' = Pop(WriteLocal(stack, Top.dst, 0))
    /\ loadMap' = loadMap
    /\ err' = "none" /\ phase' = "load"

\* C7: a null shared, exclusive or weak pointer is saved using only the
\* reserved no-pointee encoding, and loading that encoding yields a null
\* pointer without default-constructing anything, allocating raw storage or
\* running a construction hook.
C7_NullPointers == []C7_NullState /\ [][C7_NullLoadStep]_vars

\* A null top-level exclusive pointer and a null weak member of a pointee
\* built by the construction hook were saved and loaded as null.
C7_Witness ==
  /\ phase = "loaded" /\ HasHook
  /\ \E r \in DOMAIN roots :
       roots[r] = [kind |-> "unique", tgt |-> 0] /\ rootDst[r] = 0
  /\ \E i \in DOMAIN heap :
       gfld[heap[i].src] = [kind |-> "weak", tgt |-> 0] /\ heap[i].fld = 0

----------------------------------------------------------------------------
(* C8 *)

\* C8: after a successful shared_ptr load through the construction hook of a
\* type with enable_shared_from_this, the object is constructed and its
\* back-reference is not empty and designates the owner the load produced,
\* although the constructor emptied it inside the construction window.
C8_BackReference ==
  HasSFT =>
    \A i \in DOMAIN heap :
      heap[i].own = "shared" /\ heap[i].valid =>
        /\ heap[i].st = "init"
        /\ heap[i].weakThis # 0
        /\ heap[i].weakThis = i

\* A load through the hook has returned for a type with the capability.
C8_Witness ==
  /\ HasSFT /\ phase = "loaded"
  /\ \E i \in DOMAIN heap :
       heap[i].own = "shared" /\ heap[i].valid /\ heap[i].weakThis = i

----------------------------------------------------------------------------
(* C9 *)

\* The top-level pointer r is a shared owner of a, a holds a shared pointer
\* to b and b holds a weak reference to a.
IsWeakBack(r, a, b) ==
  /\ a # b
  /\ roots[r] = [kind |-> "shared", tgt |-> a]
  /\ gfld[a] = [kind |-> "shared", tgt |-> b]
  /\ gfld[b] = [kind |-> "weak", tgt |-> a]

\* C9: for A (member: shared pointer to B) and B (member: weak reference to
\* A), saved from a shared owner of A and loaded, B's weak member is not
\* expired and locks to the instance the top-level loaded pointer holds.
C9_WeakBackReference ==
  \A r \in DOMAIN roots, a \in Obj, b \in Obj :
    IsWeakBack(r, a, b) /\ phase \in {"loaded", "closed"} /\ err = "none" =>
      /\ rootDst[r] \in DOMAIN heap
      /\ heap[rootDst[r]].src = a
      /\ heap[rootDst[r]].fld \in DOMAIN heap
      /\ heap[heap[rootDst[r]].fld].src = b
      /\ heap[heap[rootDst[r]].fld].fkind = "weak"
      /\ ~Expired(heap, heap[heap[rootDst[r]].fld].fld)
      /\ heap[heap[rootDst[r]].fld].fld = rootDst[r]

\* The A/B graph was loaded and its archive is gone.
C9_Witness ==
  /\ phase = "closed" /\ err = "none"
  /\ \E r \in DOMAIN roots, a \in Obj, b \in Obj :
       IsWeakBack(r, a, b) /\ heap[heap[rootDst[r]].fld].fld = rootDst[r]

----------------------------------------------------------------------------
(* C10 *)

\* The loaded weak references whose pointee has no strong owner within G and
\* whose load has returned (top-level ones until the client drops them):
\* pairs of the loaded value and that pointee.
LoneWeakLoaded ==
  {[w |-> rootDst[r], o |-> roots[r].tgt] :
      r \in {n \in DOMAIN roots :
               /\ roots[n].kind = "weak" /\ roots[n].tgt # 0
               /\ ~OwnedInG(roots[n].tgt)
               /\ rootDst[n] # Prev /\ phase # "done"}}
    \cup {[w |-> heap[i].fld, o |-> gfld[heap[i].src].tgt] :
      i \in {n \in DOMAIN heap :
               /\ heap[n].src # 0 /\ heap[n].fkind = "weak"
               /\ gfld[heap[n].src].tgt # 0
               /\ ~OwnedInG(gfld[heap[n].src].tgt)
               /\ heap[n].fld # 0}}

\* C10 as claimed: once load of a weak reference whose pointee has no other
\* surviving strong reference has returned, the weak reference reports as
\* expired.
C10_ExpiredAfterLoad ==
  \A x \in LoneWeakLoaded : Expired(heap, x.w)

\* C10 amended: such a weak reference designates the loaded pointee and is not
\* expired for as long as the archive that loaded it exists (its registry
\* holds an owner of every pointee loaded); it reports as expired once that
\* archive has been destroyed.
C10_ExpiredAfterArchive ==
  \A x \in LoneWeakLoaded :
    /\ x.w \in DOMAIN heap
    /\ heap[x.w].src = x.o
    /\ phase \in {"load", "unwind", "loaded", "failed"} => ~Expired(heap, x.w)
    /\ phase \in {"closed", "done"} => Expired(heap, x.w)

\* A top-level weak reference to a pointee without owner in G was loaded, and
\* expired when the archive went.
C10_Witness ==
  /\ phase = "closed" /\ err = "none"
  /\ \E r \in DOMAIN roots :
       /\ roots[r].kind = "weak" /\ roots[r].tgt # 0
       /\ ~OwnedInG(roots[r].tgt)
       /\ rootDst[r] \in DOMAIN heap
       /\ heap[rootDst[r]].freed

----------------------------------------------------------------------------
(* C11 *)

\* The shared_ptr load on top of the stack is about to read an identifier
\* with the first-occurrence flag clear that is not null and was never
\* registered.
UnknownIdNext ==
  /\ phase = "load" /\ stack # <<>> /\ Top.proc = "shared" /\ Top.pc = "id"
  /\ Expect(<<"ptr_wrapper", "id">>)
  /\ ~HasMsb(Peek(2)) /\ ~Known(loadMap, Peek(2))

\* Reading it fails with the unknown-identifier failure: the destination is
\* not assigned, nothing is allocated and nothing is registered.
C11_UnknownIdStep ==
  UnknownIdNext =>
    /\ err' = "unknown id" /\ phase' = "unwind"
    /\ heap' = heap /\ loadMap' = loadMap /\ rootDst' = rootDst
    /\ stack' = stack

\* While a failure propagates no pointer is assigned, nothing is allocated or
\* registered, and the failure goes on to the caller.
C11_PropagateStep ==
  phase = "unwind" =>
    /\ phase' \in {"unwind", "failed"}
    /\ err' = err /\ rootDst' = rootDst /\ loadMap' = loadMap
    /\ Len(heap') = Len(heap)
    /\ \A i \in DOMAIN heap :
         heap'[i].fld = heap[i].fld /\ heap'[i].st = heap[i].st

\* C11: when a shared_ptr load reads an identifier with the first-occurrence
\* flag clear (other than the null identifier) that was never registered in
\* the traversal, the load fails with the unknown-identifier failure, which
\* propagates to the caller; the destination pointer keeps the value it had,
\* and nothing is constructed or registered.
C11_UnknownIdentifier ==
  /\ [](err = "unknown id" => phase \notin {"load", "loaded"})
  /\ [][C11_UnknownIdStep]_vars
  /\ [][C11_PropagateStep]_vars

\* The second top-level pointer is a shared_ptr whose identifier was unknown:
\* the failure is with the caller, the first pointer is loaded and the second
\* still holds what it held before.
C11_Witness ==
  /\ phase = "failed" /\ err = "unknown id"
  /\ roots[2].kind = "shared" /\ rootDst[2] = Prev
  /\ rootDst[1] \in DOMAIN heap
  /\ Len(stack) = 0

----------------------------------------------------------------------------
(* C12 *)

\* C12: for every pointer kind and both variants, the names load requests
\* from the archive are, name for name and in order, the names save wrote
\* ("ptr_wrapper", "id" or "valid", then "data" when present): every field
\* consumed so far was requested under the name it was written with, and in
\* particular every pointee is requested as the named field "data".
C12_FramingMatches ==
  \A k \in DOMAIN consumed : consumed[k] = stream[k].name

----------------------------------------------------------------------------
(* C13 *)

\* C13: in a load through the construction hook the raw storage belongs to
\* the load call alone while it is uninitialized: the destination given to a
\* shared_ptr or unique_ptr load call does not refer to the storage the call
\* allocated before a T is constructed in it, and once a failure has reached
\* the caller no top-level pointer refers to uninitialized storage.
C13_BufferNotExposed ==
  /\ \A k \in DOMAIN stack :
       /\ stack[k].proc \in {"shared", "unique"} /\ stack[k].inst # 0
       /\ heap[stack[k].inst].st = "uninit"
       => DstValue(stack[k].dst) # stack[k].inst
  /\ phase = "failed" =>
       \A r \in DOMAIN roots :
         rootDst[r] \in DOMAIN heap => heap[rootDst[r]].st = "init"

\* The exclusive adapter alone: storage held by stPtr is never what the
\* destination refers to.
C13_UniqueBufferNotExposed ==
  \A k \in DOMAIN stack :
    /\ stack[k].proc = "unique" /\ stack[k].inst # 0
    /\ heap[stack[k].inst].st = "uninit"
    => DstValue(stack[k].dst) # stack[k].inst

\* The hook of a top-level shared_ptr failed, the failure is with the caller
\* and the pointer refers to storage in which nothing was constructed.
C13_SharedExposedAfterFailure ==
  /\ phase = "failed" /\ err = "construct"
  /\ \E r \in DOMAIN roots :
       /\ roots[r].kind = "shared" /\ rootDst[r] \in DOMAIN heap
       /\ heap[rootDst[r]].st = "uninit" /\ ~heap[rootDst[r]].freed

----------------------------------------------------------------------------
(* C14 *)

\* The shared_ptr load call of frame k has allocated raw storage and has not
\* yet returned.
InWindow(k) ==
  stack[k].proc = "shared" /\ stack[k].inst # 0 /\ HasHook

\* C14: in a shared_ptr load through the construction hook the validity flag
\* is false from the allocation of the raw storage until the construction step
\* has returned and the guard has restored: no load call still in progress has
\* its flag set, and a flag that is set belongs to storage in which a T was
\* constructed and, for a type with the capability, whose back-reference was
\* restored. Storage whose construction failed stays uninitialized, so its
\* flag is never set.
C14_ValidAfterConstruction ==
  /\ \A k \in DOMAIN stack : InWindow(k) => ~heap[stack[k].inst].valid
  /\ \A i \in DOMAIN heap :
       heap[i].valid =>
         /\ heap[i].own = "shared" /\ heap[i].ctl
         /\ heap[i].st = "init"
         /\ HasSFT => heap[i].weakThis = i
  /\ \A i \in DOMAIN heap :
       heap[i].ctl /\ heap[i].st = "uninit" => ~heap[i].valid

\* One load through the hook returned and set its flag, a later one failed
\* inside the hook: its storage is uninitialized and its flag is false.
C14_Witness ==
  /\ phase = "failed" /\ err = "construct"
  /\ \E i \in DOMAIN heap : heap[i].ctl /\ heap[i].valid
  /\ \E i \in DOMAIN heap :
       heap[i].ctl /\ heap[i].st = "uninit" /\ ~heap[i].valid

----------------------------------------------------------------------------
(* C15 *)

\* C15: for a type with enable_shared_from_this the guard holds the image
\* the base had on entry of loadAndConstructSharedPtr (the back-reference
\* ptr.reset had set), the construction step empties the base, and when the
\* step has returned the image is copied back, so that on return of
\* loadAndConstructSharedPtr the base has its value from entry; for a type
\* without the capability no image is taken, the restore step does not exist
\* and there is no back-reference.
C15_GuardBrackets ==
  phase = "load" =>
    \A k \in DOMAIN stack :
      InWindow(k) =>
        LET f == stack[k]
            x == heap[f.inst]
        IN IF HasSFT
           THEN /\ f.pc = "construct" => x.weakThis = f.inst
                /\ f.pc = "restore" => f.snap = f.inst
                /\ f.pc = "restore" /\ k = Len(stack) =>
                     x.st = "init" /\ x.weakThis = 0
                /\ f.pc = "valid" => x.weakThis = f.snap /\ f.snap = f.inst
           ELSE f.pc # "restore" /\ f.snap = 0 /\ x.weakThis = 0

\* loadAndConstructSharedPtr has returned for a type with the capability: the
\* base holds the image it had on entry.
C15_Witness ==
  /\ phase = "load" /\ HasSFT /\ stack # <<>>
  /\ Top.proc = "shared" /\ Top.pc = "valid"
  /\ heap[Top.inst].st = "init"
  /\ heap[Top.inst].weakThis = Top.inst /\ Top.snap = Top.inst

----------------------------------------------------------------------------
(* C16 *)

\* The unique_ptr wrappers saved, as indices into saveLog.
UniqueSaves == {k \in DOMAIN saveLog : saveLog[k].via = "unique"}

\* What save wrote for each unique_ptr: "ptr_wrapper", then the validity byte,
\* 0 for an empty pointer and 1 otherwise, then the pointee's data exactly when
\* the byte is 1. No identifier was given to a pointee saved through a
\* unique_ptr, identifiers were handed out only for pointees saved through a
\* shared_ptr wrapper, and no instance loaded through a unique_ptr is in the
\* load-side registry.
C16_WireState ==
  /\ \A k \in UniqueSaves :
       LET e == saveLog[k]
       IN /\ stream[e.at + 1].name = "ptr_wrapper"
          /\ stream[e.at + 2] = Field("valid", IF e.tgt = 0 THEN 0 ELSE 1)
          /\ EmittedWidth(k) = (IF e.tgt = 0 THEN 2 ELSE 3)
          /\ e.tgt # 0 =>
               stream[e.at + 3] = Field("data", e.tgt) /\ saveMap[e.tgt] = 0
  /\ \A o \in Obj : saveMap[o] # 0 => SharedVisits(o) # {}
  /\ nextId = 1 + Cardinality({o \in Obj : saveMap[o] # 0})
  /\ \A i \in DOMAIN heap :
       heap[i].own \in {"unique", "raw"} => ~Registered(i)

\* The unique_ptr load on top of the stack is at the given position.
UniqueAt(pcs) ==
  /\ phase = "load" /\ stack # <<>>
  /\ Top.proc = "unique" /\ Top.pc \in pcs

\* Load of a unique_ptr: the validity byte is read first; when it is 0 the
\* destination is left empty and the call returns without reading more, when
\* it is 1 one instance is allocated and the call goes on to read the
\* pointee's data, which is the next field, "data". The registry is not
\* touched by any step of the call.
C16_LoadStep ==
  /\ UniqueAt({"valid"}) /\ Expect(<<"ptr_wrapper", "valid">>) =>
       /\ pos' = pos + 2
       /\ stream[pos + 2].name = "valid"
       /\ Peek(2) = 0 =>
            /\ rootDst' = WriteRoot(rootDst, Top.dst, 0)
            /\ heap' = WriteField(heap, Top.dst, 0)
            /\ stack' = Pop(WriteLocal(stack, Top.dst, 0))
       /\ Peek(2) = 1 =>
            /\ Len(heap') = Len(heap) + 1
            /\ Len(stack') = Len(stack)
            /\ stack'[Len(stack)].pc \in {"data", "construct"}
       /\ Peek(2) \in {0, 1}
  /\ UniqueAt({"data", "construct"}) =>
       /\ pos' = pos + 1
       /\ stream[pos + 1].name = "data"
       /\ heap'[Top.inst].src = Peek(1)
  /\ UniqueAt({"valid", "data", "construct", "transfer", "ret"}) =>
       loadMap' = loadMap

\* C16: save of a unique_ptr writes the validity byte first, 0 for an empty
\* pointer and 1 otherwise, followed by the pointee's data if and only if the
\* byte is 1; load reads the byte and reads the pointee's data if and only if
\* the byte is 1, leaving the destination empty when it is 0; neither save nor
\* load touches the registry.
C16_UniqueWireShape == []C16_WireState /\ [][C16_LoadStep]_vars

\* A top-level unique_ptr to a pointee whose member is an empty unique_ptr
\* was saved and loaded: both byte values were written and read.
C16_Witness ==
  /\ phase = "loaded"
  /\ \E r \in DOMAIN roots :
       /\ roots[r].kind = "unique" /\ roots[r].tgt # 0
       /\ gfld[roots[r].tgt] = [kind |-> "unique", tgt |-> 0]
       /\ rootDst[r] \in DOMAIN heap
       /\ heap[rootDst[r]].own = "unique"
       /\ heap[rootDst[r]].src = roots[r].tgt
       /\ heap[rootDst[r]].fld = 0

----------------------------------------------------------------------------
(* C17 *)

\* C17: the shared_ptr save wrapper serializes *ptr only for a non-null ptr:
\* a wrapper saved for a null pointer (a null shared_ptr, or the temporary
\* locked from an empty or expired weak_ptr) got an identifier without the
\* first-occurrence flag and wrote no data, and every "data" field of the
\* stream is that of a pointee.
C17_NoNullDereference ==
  /\ \A k \in DOMAIN saveLog :
       saveLog[k].via = "shared" /\ saveLog[k].tgt = 0 =>
         ~HasMsb(saveLog[k].id) /\ ~saveLog[k].data
  /\ \A k \in DOMAIN saveLog : saveLog[k].data => saveLog[k].tgt \in Obj
  /\ \A n \in DOMAIN stream :
       stream[n].name = "data" => stream[n].v \in Obj
  /\ Len(saveLog) + Len(agenda) <= Cardinality(Slots(roots, gfld))

\* A null shared_ptr and an expired weak_ptr have both been saved.
C17_Witness ==
  /\ phase = "load"
  /\ \E s \in Slots(roots, gfld) : s.p = [kind |-> "shared", tgt |-> 0]
  /\ \E s \in Slots(roots, gfld) : s.p = [kind |-> "weak", tgt |-> 0]
  /\ Cardinality({k \in DOMAIN saveLog :
                    saveLog[k].via = "shared" /\ saveLog[k].tgt = 0}) = 2

----------------------------------------------------------------------------
(* C18 *)

\* A top-level load call has returned to the client without failure.
TopLevelReturned ==
  /\ err = "none"
  /\ \/ phase = "load" /\ stack = <<>> /\ rootIdx > 1
     \/ phase = "loaded"

\* C18: when a top-level load has returned successfully, every owner that
\* the traversal registered for a type with a construction hook has its
\* validity flag set and holds a constructed T, also the owners that were
\* handed out by identifier inside their own construction window.
C18_RegisteredInitialized ==
  TopLevelReturned /\ HasHook =>
    \A n \in DOMAIN loadMap :
      /\ loadMap[n] \in DOMAIN heap
      /\ heap[loadMap[n]].valid
      /\ heap[loadMap[n]].st = "init"

\* A was loaded through the hook, and B, constructed inside A's construction
\* window, got A by identifier while A was uninitialized; the top-level load
\* has returned.
C18_Witness ==
  /\ phase = "loaded" /\ HasHook
  /\ \E r \in DOMAIN roots, a \in Obj, b \in Obj :
       /\ IsSharedCycle(r, a, b)
       /\ heap[heap[rootDst[r]].fld].fld = rootDst[r]
       /\ heap[rootDst[r]].valid /\ heap[heap[rootDst[r]].fld].valid

====
